---- MODULE Spec2Model ----
(***************************************************************************)
(* Blackjack with a Monte Carlo tree search player (cards.py, agents.py).  *)
(*                                                                         *)
(* Python objects are modelled as a heap: decks, hands, game states and    *)
(* tree nodes are records stored under integer references, so that two     *)
(* names for one object (aliasing) and a deepcopy are different things.    *)
(* A Card is modelled by its rank (Card.value); the suit is never read.    *)
(* Payoffs are counted in half points: 0 = loss, 1 = tie (0.5), 2 = win.   *)
(***************************************************************************)
EXTENDS Integers, Sequences, FiniteSets, TLC

VARIABLES decks, hands, states, nodes, root, pc, current_node, node, state,
          choice, agent, reward, iterations, result, error

vars == <<decks, hands, states, nodes, root, pc, current_node, node, state,
          choice, agent, reward, iterations, result, error>>

(***************************************************************************)
(* Bounds of the model.                                                    *)
(***************************************************************************)
\* free cards on top of the live deck (every order of SearchRanks is tried)
TopLen == 4
\* fixed cards below them, deep enough that no search runs the deck dry
FillLen == 10
\* most iterations of the search loop before the clock is taken to have run out
MaxIter == 6
\* most cards the caller deals to the player before asking for a decision
MaxPlayerCards == 3
\* most cards per hand in the hand specification
MaxAddCards == 4
\* most cards per hand in the scoring specification
MaxScoreCards == 3
\* how many outcomes of random.shuffle the deck specification tries
NumShuffles == 3
\* the aces and, below them, the twos under the free cards of the deck of
\* the rollout specification
RolloutAces == 21
RolloutTwos == 12

(***************************************************************************)
(* cards.py: ranks and their classes                                       *)
(***************************************************************************)
Values == <<"2", "3", "4", "5", "6", "7", "8", "9", "10", "J", "Q", "K", "A">>

Low_cards == {"2", "3", "4", "5", "6"}

High_cards == {"10", "J", "Q", "K", "A"}

\* the ranks the search specification draws its decks from
SearchRanks == {"5", "9", "K", "A"}

\* the ranks the scoring specification builds its two hands from
ScoreRanks == {"2", "9", "K", "A"}

None == 0

\* str.isnumeric() on a rank
isnumeric(v) == v \in {"2", "3", "4", "5", "6", "7", "8", "9", "10"}

\* int(card.value) for a numeric rank
int(v) ==
  CASE v = "2" -> 2 [] v = "3" -> 3 [] v = "4" -> 4 [] v = "5" -> 5
    [] v = "6" -> 6 [] v = "7" -> 7 [] v = "8" -> 8 [] v = "9" -> 9
    [] v = "10" -> 10

\* the key of card_counts a rank is counted under (face cards count as "10")
CountKey(v) == IF v \in {"J", "Q", "K"} THEN "10" ELSE v

CountKeys == {CountKey(Values[i]) : i \in 1..Len(Values)}

(***************************************************************************)
(* cards.py: Deck.  cards[Len(cards)] is the top: list.pop() takes the     *)
(* last element.                                                           *)
(***************************************************************************)
\* Deck.deal_card had it not counted the ace as a high card
deal_card_ace_not_high(deck) ==
  LET removed_card == deck.cards[Len(deck.cards)]
      card_value == IF removed_card \in {"J", "Q", "K"} THEN "10"
                    ELSE removed_card
  IN [cards |-> SubSeq(deck.cards, 1, Len(deck.cards) - 1),
      heat |-> IF removed_card \in Low_cards THEN deck.heat - 1
               ELSE IF removed_card \in High_cards \ {"A"} THEN deck.heat + 1
               ELSE deck.heat,
      card_counts |-> [deck.card_counts EXCEPT ![card_value] = @ - 1]]

\* Deck.deal_card on a non-empty deck: the deck after the call
deal_card(deck) ==
  LET removed_card == deck.cards[Len(deck.cards)]
      card_value == CountKey(removed_card)
  IN [cards |-> SubSeq(deck.cards, 1, Len(deck.cards) - 1),
      heat |-> IF removed_card \in Low_cards THEN deck.heat - 1
               ELSE IF removed_card \in High_cards THEN deck.heat + 1
               ELSE deck.heat,
      card_counts |-> [deck.card_counts EXCEPT ![card_value] = @ - 1]]

\* the card Deck.deal_card returns
top_card(deck) == deck.cards[Len(deck.cards)]

Deck_num == 6

Suits == <<"H", "D", "C", "S">>

\* the list deal_deck builds before it shuffles: for every suit every rank,
\* the whole Deck_num times (of a card only the rank is kept)
Unshuffled ==
  [i \in 1..(Len(Suits) * Len(Values) * Deck_num) |->
     Values[((i - 1) % Len(Values)) + 1]]

\* steps coprime to the number of cards, one per modelled shuffle
ShuffleSteps == <<5, 7, 11, 17>>

\* random.shuffle(cards): the permutation number seed, which takes the
\* cards in steps of ShuffleSteps[seed] starting at seed
shuffle(cards, seed) ==
  [i \in 1..Len(cards) |->
     cards[((i * ShuffleSteps[seed] + seed) % Len(cards)) + 1]]

\* the key of card_counts that the loop of deal_deck counts a rank under
deal_deck_key(value) ==
  IF isnumeric(value) THEN value ELSE IF value # "A" THEN "10" ELSE "A"

\* Deck.deal_deck: the deck after the call, seed being the shuffle
deal_deck(seed) ==
  [cards |-> shuffle(Unshuffled, seed),
   heat |-> 0,
   card_counts |->
     [k \in {deal_deck_key(Values[i]) : i \in 1..Len(Values)} |->
        Deck_num * Len(Suits)
          * Cardinality({i \in 1..Len(Values) : deal_deck_key(Values[i]) = k})]]

(***************************************************************************)
(* cards.py: Hand                                                          *)
(***************************************************************************)
EmptyHand == [cards |-> <<>>, value |-> 0, aces |-> 0]

RECURSIVE adjust_for_aces(_)
\* the loop "while self.value > 21 and self.aces"
adjust_for_aces(hand) ==
  IF hand.value > 21 /\ hand.aces # 0
  THEN adjust_for_aces([hand EXCEPT !.value = @ - 10, !.aces = @ - 1])
  ELSE hand

RECURSIVE relax_keeping_counter(_)
\* the loop "while self.value > 21 and self.aces" without "self.aces -= 1"
relax_keeping_counter(hand) ==
  IF hand.value > 21 /\ hand.aces # 0
  THEN relax_keeping_counter([hand EXCEPT !.value = @ - 10])
  ELSE hand

\* Hand.update_value had it not counted down the aces it relaxes
update_value_keeps_ace_counter(hand, card) ==
  LET card_value == IF isnumeric(card) THEN int(card)
                    ELSE IF card = "A" THEN 11 ELSE 10
      aces == IF card = "A" THEN hand.aces + 1 ELSE hand.aces
  IN relax_keeping_counter([hand EXCEPT !.value = @ + card_value,
                                        !.aces = aces])

\* Hand.update_value had it relaxed one ace at most (if in place of while)
update_value_one_ace(hand, card) ==
  LET card_value == IF isnumeric(card) THEN int(card)
                    ELSE IF card = "A" THEN 11 ELSE 10
      aces == IF card = "A" THEN hand.aces + 1 ELSE hand.aces
      value == hand.value + card_value
  IN IF value > 21 /\ aces # 0
     THEN [hand EXCEPT !.value = value - 10, !.aces = aces - 1]
     ELSE [hand EXCEPT !.value = value, !.aces = aces]

\* Hand.update_value
update_value(hand, card) ==
  LET card_value == IF isnumeric(card) THEN int(card)
                    ELSE IF card = "A" THEN 11 ELSE 10
      aces == IF card = "A" THEN hand.aces + 1 ELSE hand.aces
  IN adjust_for_aces([hand EXCEPT !.value = @ + card_value, !.aces = aces])

\* Hand.add_card
add_card(hand, card) ==
  update_value([hand EXCEPT !.cards = Append(@, card)], card)

\* payoffs in half points
Loss == 0

Tie == 1

Win == 2

\* Hand.compute_winner had it paid three to two for a win on 21
compute_winner_pays_blackjack(self, dealer_hand) ==
  IF self.value > 21 THEN Loss
  ELSE IF dealer_hand.value > 21 \/ self.value > dealer_hand.value
       THEN (IF self.value = 21 THEN Win + Tie ELSE Win)
       ELSE IF self.value = dealer_hand.value THEN Tie
       ELSE Loss

\* Hand.compute_winner had it tested the dealer's bust first
compute_winner_dealer_first(self, dealer_hand) ==
  IF dealer_hand.value > 21 THEN Win
  ELSE IF self.value > 21 THEN Loss
  ELSE IF self.value = dealer_hand.value THEN Tie
  ELSE IF self.value > dealer_hand.value THEN Win
  ELSE Loss

\* Hand.compute_winner
compute_winner(self, dealer_hand) ==
  LET player_bust == self.value > 21
      dealer_bust == dealer_hand.value > 21
      player_win == self.value > dealer_hand.value
      tie == self.value = dealer_hand.value
  IN IF player_bust THEN Loss
     ELSE IF dealer_bust THEN Win
     ELSE IF tie THEN Tie
     ELSE IF player_win THEN Win
     ELSE Loss

(***************************************************************************)
(* The heap.  H is a record of the three object stores; an operation on    *)
(* objects takes H and returns the heap after it.                          *)
(***************************************************************************)
Heap == [decks |-> decks, hands |-> hands, states |-> states]

\* the live game objects (game.py: Game.deck, player.hand, dealer.hand)
LiveDeck == 1

PlayerHand == 1

DealerHand == 2

\* a reference no object of the store f has yet
NewId(f) ==
  CHOOSE i \in 1..(Cardinality(DOMAIN f) + 1) :
    i \notin DOMAIN f /\ \A j \in 1..(i - 1) : j \in DOMAIN f

\* copy.deepcopy of a Hand: a new object with the same content
deepcopy_hand(H, h) ==
  LET n == NewId(H.hands)
  IN [H |-> [H EXCEPT !.hands = @ @@ (n :> H.hands[h])], ref |-> n]

\* copy.deepcopy of a Deck
deepcopy_deck(H, d) ==
  LET n == NewId(H.decks)
  IN [H |-> [H EXCEPT !.decks = @ @@ (n :> H.decks[d])], ref |-> n]

\* BlackjackStateMCTS.__init__ had it kept the caller's deck (no deepcopy)
BlackjackStateMCTS_init_shared_deck(H, my_hand, dealer_hand, deck) ==
  LET c1 == deepcopy_hand(H, my_hand)
      c2 == deepcopy_hand(c1.H, dealer_hand)
      s == NewId(H.states)
  IN [H |-> [c2.H EXCEPT !.states = @ @@
               (s :> [my_hand |-> c1.ref, dealer_hand |-> c2.ref,
                      deck |-> deck, stand |-> FALSE])],
      ref |-> s]

\* BlackjackStateMCTS.__init__: the state owns copies of the three objects
BlackjackStateMCTS_init(H, my_hand, dealer_hand, deck) ==
  LET c1 == deepcopy_hand(H, my_hand)
      c2 == deepcopy_hand(c1.H, dealer_hand)
      c3 == deepcopy_deck(c2.H, deck)
      s == NewId(H.states)
  IN [H |-> [c3.H EXCEPT !.states = @ @@
               (s :> [my_hand |-> c1.ref, dealer_hand |-> c2.ref,
                      deck |-> c3.ref, stand |-> FALSE])],
      ref |-> s]

\* copy.deepcopy of a BlackjackStateMCTS: its hands and deck are copied too
\* (an object reached twice is copied once)
deepcopy_state(H, s) ==
  LET old == H.states[s]
      c1 == deepcopy_hand(H, old.my_hand)
      c2 == IF old.dealer_hand = old.my_hand THEN c1
            ELSE deepcopy_hand(c1.H, old.dealer_hand)
      c3 == deepcopy_deck(c2.H, old.deck)
      n == NewId(H.states)
  IN [H |-> [c3.H EXCEPT !.states = @ @@
               (n :> [my_hand |-> c1.ref, dealer_hand |-> c2.ref,
                      deck |-> c3.ref, stand |-> old.stand])],
      ref |-> n]

\* BlackjackStateMCTS.is_terminal had it tested the stand flag only
is_terminal_stand_only(H, s) == H.states[s].stand

\* BlackjackStateMCTS.is_terminal
is_terminal(H, s) ==
  H.hands[H.states[s].my_hand].value > 21 \/ H.states[s].stand

\* BlackjackStateMCTS.get_actions
get_actions(H, s) == <<"hit", "stand">>

\* hand.add_card(deck.deal_card()) on the objects h and d (d is not empty)
deal_into(H, d, h) ==
  [H EXCEPT !.hands[h] = add_card(@, top_card(H.decks[d])),
            !.decks[d] = deal_card(@)]

\* BlackjackStateMCTS.successor had it worked on self (no deepcopy)
successor_in_place(H, s, action) ==
  IF action = "hit"
  THEN IF Len(H.decks[H.states[s].deck].cards) = 0
       THEN [H |-> H, ref |-> s, ok |-> FALSE]
       ELSE [H |-> deal_into(H, H.states[s].deck, H.states[s].my_hand),
             ref |-> s, ok |-> TRUE]
  ELSE [H |-> [H EXCEPT !.states[s].stand = TRUE], ref |-> s, ok |-> TRUE]

\* BlackjackStateMCTS.successor; ok is FALSE when deal_card raises IndexError
successor(H, s, action) ==
  LET c == deepcopy_state(H, s)
      next_state == c.H.states[c.ref]
  IN IF action = "hit"
     THEN IF Len(c.H.decks[next_state.deck].cards) = 0
          THEN [H |-> c.H, ref |-> c.ref, ok |-> FALSE]
          ELSE [H |-> deal_into(c.H, next_state.deck, next_state.my_hand),
                ref |-> c.ref, ok |-> TRUE]
     ELSE [H |-> [c.H EXCEPT !.states[c.ref].stand = TRUE],
           ref |-> c.ref, ok |-> TRUE]

\* BlackjackStateMCTS.refresh_hand
refresh_hand(H, s, parent_deck, parent_hand) ==
  LET H1 == [H EXCEPT !.states[s].deck = parent_deck,
                      !.states[s].my_hand = parent_hand]
  IN IF Len(H1.decks[parent_deck].cards) = 0
     THEN [H |-> H1, ok |-> FALSE]
     ELSE [H |-> deal_into(H1, parent_deck, parent_hand), ok |-> TRUE]

\* DealerAgent.policy
DealerAgent_policy(hand) == hand.value < 17

RECURSIVE dealer_loop(_, _, _)
\* the loop of _simulate_dealer: while agent.policy(...): agent.hit()
dealer_loop(H, d, a) ==
  IF DealerAgent_policy(H.hands[a])
  THEN IF Len(H.decks[d].cards) = 0
       THEN [H |-> H, ok |-> FALSE]
       ELSE dealer_loop(deal_into(H, d, a), d, a)
  ELSE [H |-> H, ok |-> TRUE]

\* BlackjackStateMCTS._simulate_dealer: DealerAgent(self.deck) is a new agent,
\* and Agent.__init__ gives it a new empty Hand
simulate_dealer(H, s) ==
  LET a == NewId(H.hands)
      H1 == [H EXCEPT !.hands = @ @@ (a :> EmptyHand)]
      r == dealer_loop(H1, H.states[s].deck, a)
  IN [H |-> r.H, ok |-> r.ok, agent |-> a]

\* BlackjackStateMCTS.find_terminal_value
find_terminal_value(H, s) ==
  LET r == simulate_dealer(H, s)
  IN [H |-> r.H, ok |-> r.ok, agent |-> r.agent,
      payoff |-> compute_winner(r.H.hands[r.H.states[s].my_hand],
                                r.H.hands[r.H.states[s].dealer_hand])]

(***************************************************************************)
(* agents.py: MonteCarloNode.  N is the store of nodes.                    *)
(***************************************************************************)
\* MonteCarloNode.__init__ had it not tested is_terminal
MonteCarloNode_init_no_terminal_test(H, s, parent, parent_action) ==
  [state |-> s, parent |-> parent, parent_action |-> parent_action,
   total_visits |-> 0, total_rewards |-> 0, children |-> <<>>,
   missing_child_actions |-> get_actions(H, s)]

\* MonteCarloNode.__init__
MonteCarloNode_init(H, s, parent, parent_action) ==
  [state |-> s, parent |-> parent, parent_action |-> parent_action,
   total_visits |-> 0, total_rewards |-> 0, children |-> <<>>,
   missing_child_actions |-> IF is_terminal(H, s) THEN <<>>
                             ELSE get_actions(H, s)]

\* MonteCarloNode.is_fully_expanded
is_fully_expanded(n) == Len(n.missing_child_actions) = 0

\* the least common multiple of 1..16: averages are counted in units of
\* 1 / (2 * AvgUnit), in which every average of at most 16 visits is exact
AvgUnit == 16 * 9 * 5 * 7 * 11 * 13

\* MonteCarloNode.get_average_reward
get_average_reward(n) ==
  IF n.total_visits = 0 THEN 0
  ELSE n.total_rewards * (AvgUnit \div n.total_visits)

\* max(seq, key = ...) had it taken the last of the elements whose key is
\* the largest
first_max_takes_last(keys) ==
  CHOOSE i \in 1..Len(keys) :
    /\ \A j \in 1..Len(keys) : keys[j] <= keys[i]
    /\ \A j \in (i + 1)..Len(keys) : keys[j] < keys[i]

\* max(seq, key = ...): the index of the first element whose key is the
\* largest, keys being the keys of the elements in order
first_max(keys) ==
  CHOOSE i \in 1..Len(keys) :
    /\ \A j \in 1..Len(keys) : keys[j] <= keys[i]
    /\ \A j \in 1..(i - 1) : keys[j] < keys[i]

\* MonteCarloNode.get_best_average_child had it taken the child with the
\* largest cumulative reward
get_best_average_child_by_total(N, n) ==
  LET children == N[n].children
  IN children[first_max([i \in 1..Len(children) |->
                           N[children[i]].total_rewards])]

\* MonteCarloNode.get_best_average_child (the node has a child)
get_best_average_child(N, n) ==
  LET children == N[n].children
  IN children[first_max([i \in 1..Len(children) |->
                           get_average_reward(N[children[i]])])]

\* math.log(n) * 10^8, rounded, for n = 1..16
Ln8 == <<0, 69314718, 109861229, 138629436, 160943791, 179175947,
         194591015, 207944154, 219722458, 230258509, 239789527,
         248490665, 256494936, 263905733, 270805020, 277258872>>

RECURSIVE isqrt(_, _, _)
\* the largest s in lo..hi with s * s <= x (lo * lo <= x < (hi + 1)^2)
isqrt(x, lo, hi) ==
  IF lo = hi THEN lo
  ELSE LET mid == (lo + hi + 1) \div 2
       IN IF mid * mid <= x THEN isqrt(x, mid, hi) ELSE isqrt(x, lo, mid - 1)

\* math.sqrt(x / 10^8) in units of 10^-7: the integer root of x and one
\* step of Newton's method on the remainder
sqrt7(x) ==
  LET s == isqrt(x, 0, 32767)
  IN s * 1000 + (IF s = 0 THEN 0 ELSE ((x - s * s) * 1000) \div (2 * s))

\* MonteCarloNode.get_ucb_value, in units of 10^-7 (visits of both are >= 1):
\* for up to 16 visits it orders any two nodes as the floating point value does
get_ucb_value(n, parent_total_visits) ==
  (n.total_rewards * 5000000) \div n.total_visits
    + sqrt7((2 * Ln8[parent_total_visits]) \div n.total_visits)

\* MonteCarloNode.get_best_ucb_child (the node has a child)
get_best_ucb_child(N, n) ==
  LET children == N[n].children
  IN children[first_max([i \in 1..Len(children) |->
                           get_ucb_value(N[children[i]], N[n].total_visits)])]

RECURSIVE update_rewards_below_root(_, _, _)
\* MonteCarloNode.update_rewards had its loop stopped at the root
\* (while parent_node.parent is not None)
update_rewards_below_root(N, n, r) ==
  IF n = None \/ N[n].parent = None THEN N
  ELSE update_rewards_below_root([N EXCEPT ![n].total_rewards = @ + r,
                                           ![n].total_visits = @ + 1],
                                 N[n].parent, r)

RECURSIVE update_rewards_visits_on_reward(_, _, _)
\* MonteCarloNode.update_rewards had it counted a visit only with a reward
\* that is not 0
update_rewards_visits_on_reward(N, n, r) ==
  IF n = None THEN N
  ELSE update_rewards_visits_on_reward(
         [N EXCEPT ![n].total_rewards = @ + r,
                   ![n].total_visits = IF r = 0 THEN @ ELSE @ + 1],
         N[n].parent, r)

RECURSIVE update_rewards_tie_as_win(_, _, _)
\* MonteCarloNode.update_rewards had it added a whole point for any payoff
\* that is not 0
update_rewards_tie_as_win(N, n, r) ==
  IF n = None THEN N
  ELSE update_rewards_tie_as_win(
         [N EXCEPT ![n].total_rewards = @ + (IF r = 0 THEN 0 ELSE Win),
                   ![n].total_visits = @ + 1],
         N[n].parent, r)

RECURSIVE update_rewards(_, _, _)
\* MonteCarloNode.update_rewards: the nodes after the walk from n to the root
update_rewards(N, n, r) ==
  IF n = None THEN N
  ELSE update_rewards([N EXCEPT ![n].total_rewards = @ + r,
                                ![n].total_visits = @ + 1],
                      N[n].parent, r)

\* the objects still referenced once the locals of an iteration are gone
Collect(H, N) ==
  LET keep == {N[n].state : n \in DOMAIN N}
      keptHands == {PlayerHand, DealerHand}
                     \cup {H.states[s].my_hand : s \in keep}
                     \cup {H.states[s].dealer_hand : s \in keep}
      keptDecks == {LiveDeck} \cup {H.states[s].deck : s \in keep}
  IN [decks |-> [d \in keptDecks |-> H.decks[d]],
      hands |-> [h \in keptHands |-> H.hands[h]],
      states |-> [s \in keep |-> H.states[s]]]

SetHeap(H) ==
  /\ decks' = H.decks
  /\ hands' = H.hands
  /\ states' = H.states

(***************************************************************************)
(* The search specification: a caller deals from the live deck as          *)
(* Game.play_round does and asks MonteCarloAgent.policy for a decision.    *)
(***************************************************************************)
\* the fixed cards below the free ones
FillerPattern == <<"K", "A", "5">>

Filler == [i \in 1..FillLen |-> FillerPattern[((i - 1) % 3) + 1]]

\* how many cards of seq have a rank in S
Count(seq, S) == Cardinality({i \in 1..Len(seq) : seq[i] \in S})

\* the deck object left when all of a freshly dealt Deck() but cards was dealt
DeckOf(cards) ==
  [cards |-> cards,
   heat |-> Count(cards, Low_cards) - Count(cards, High_cards),
   card_counts |-> [k \in CountKeys |->
                      Count(cards, {Values[i] : i \in {j \in 1..Len(Values) :
                                                        CountKey(Values[j]) = k}})]]

Init ==
  /\ \E top \in [1..TopLen -> SearchRanks] :
       decks = (LiveDeck :> DeckOf(Filler \o top))
  /\ hands = (PlayerHand :> EmptyHand) @@ (DealerHand :> EmptyHand)
  /\ states = <<>>
  /\ nodes = <<>>
  /\ root = None
  /\ pc = "caller"
  /\ current_node = None
  /\ node = None
  /\ state = None
  /\ choice = "none"
  /\ agent = None
  /\ reward = 0
  /\ iterations = 0
  /\ result = "none"
  /\ error = "none"

\* Agent.hit of the player or the dealer on the live deck, in the order of
\* Game.play_round: two cards to the player, one to the dealer, then hits
hit(h) ==
  /\ pc = "caller"
  /\ Len(decks[LiveDeck].cards) > 0
  /\ IF h = PlayerHand
     THEN \/ Len(hands[PlayerHand].cards) < 2
          \/ /\ Len(hands[DealerHand].cards) = 1
             /\ Len(hands[PlayerHand].cards) < MaxPlayerCards
     ELSE Len(hands[PlayerHand].cards) = 2 /\ Len(hands[DealerHand].cards) = 0
  /\ SetHeap(deal_into(Heap, LiveDeck, h))
  /\ UNCHANGED <<nodes, root, pc, current_node, node, state, choice, agent, reward,
                 iterations, result, error>>

\* MonteCarloAgent.policy, lines 241-244: the start state and the root
policy_begin ==
  /\ pc = "caller"
  /\ Len(hands[PlayerHand].cards) >= 2
  /\ Len(hands[DealerHand].cards) = 1
  /\ LET start_state == BlackjackStateMCTS_init(Heap, PlayerHand, DealerHand,
                                                LiveDeck)
         n == NewId(nodes)
     IN /\ SetHeap(start_state.H)
        /\ nodes' = nodes @@ (n :> MonteCarloNode_init(start_state.H,
                                      start_state.ref, None, "none"))
        /\ root' = n
  /\ pc' = "loop"
  /\ UNCHANGED <<current_node, node, state, choice, agent, reward, iterations, result,
                 error>>

\* the loop test finds time left: root.find_leaf_node() starts
loop_continue ==
  /\ pc = "loop"
  /\ iterations < MaxIter
  /\ current_node' = root
  /\ pc' = "find_leaf"
  /\ UNCHANGED <<decks, hands, states, nodes, root, node, state, choice, agent, reward,
                 iterations, result, error>>

\* the loop test finds the time used up (the clock is outside the program:
\* any test may be the one that fails, the first included)
loop_exit ==
  /\ pc = "loop"
  /\ pc' = "best"
  /\ UNCHANGED <<decks, hands, states, nodes, root, current_node, node, state,
                 choice, agent, reward, iterations, result, error>>

\* find_leaf_node reaches a terminal state and returns current_node;
\* simulate starts on it (state = self.state)
find_leaf_terminal ==
  /\ pc = "find_leaf"
  /\ is_terminal(Heap, nodes[current_node].state)
  /\ node' = current_node
  /\ state' = nodes[current_node].state
  /\ pc' = "simulate"
  /\ UNCHANGED <<decks, hands, states, nodes, root, current_node, choice, agent, reward,
                 iterations, result, error>>

\* MonteCarloNode.expand had it read the last action without removing it
\* (missing_child_actions[-1] in place of pop())
expand_without_pop(H, N, n) ==
  LET missing == N[n].missing_child_actions
      action == missing[Len(missing)]
      next_state == successor(H, N[n].state, action)
      child_node == NewId(N)
  IN [H |-> next_state.H, ok |-> next_state.ok, child |-> child_node,
      N |-> [N EXCEPT ![n].children = Append(@, child_node)]
              @@ (child_node :> MonteCarloNode_init(next_state.H,
                                  next_state.ref, n, action))]

\* MonteCarloNode.expand: the heap, the nodes and the new child
expand(H, N, n) ==
  LET missing == N[n].missing_child_actions
      action == missing[Len(missing)]
      next_state == successor(H, N[n].state, action)
      child_node == NewId(N)
  IN [H |-> next_state.H, ok |-> next_state.ok, child |-> child_node,
      N |-> [N EXCEPT ![n].missing_child_actions =
                        SubSeq(missing, 1, Len(missing) - 1),
                      ![n].children = Append(@, child_node)]
              @@ (child_node :> MonteCarloNode_init(next_state.H,
                                  next_state.ref, n, action))]

\* find_leaf_node expands a node that is not fully expanded and returns the
\* child; simulate starts on it
find_leaf_expand ==
  /\ pc = "find_leaf"
  /\ ~is_terminal(Heap, nodes[current_node].state)
  /\ ~is_fully_expanded(nodes[current_node])
  /\ LET e == expand(Heap, nodes, current_node)
     IN IF e.ok
        THEN /\ SetHeap(e.H)
             /\ nodes' = e.N
             /\ node' = e.child
             /\ state' = e.N[e.child].state
             /\ pc' = "simulate"
             /\ error' = error
        ELSE /\ pc' = "error"
             /\ error' = "IndexError"
             /\ UNCHANGED <<decks, hands, states, nodes, node, state>>
  /\ UNCHANGED <<root, current_node, choice, agent, reward, iterations, result>>

\* the refresh of lines 384-386 had it passed the parent's deck itself
\* (no deepcopy): the child then draws from the deck of its parent
refresh_on_parent_deck(H, N, c) ==
  LET parent_state == H.states[N[N[c].parent].state]
      parent_hand == deepcopy_hand(H, parent_state.my_hand)
  IN refresh_hand(parent_hand.H, N[c].state, parent_state.deck,
                  parent_hand.ref)

\* the refresh of lines 384-386 on the child c chosen by UCB
refresh(H, N, c) ==
  LET parent_state == H.states[N[N[c].parent].state]
      parent_deck == deepcopy_deck(H, parent_state.deck)
      parent_hand == deepcopy_hand(parent_deck.H, parent_state.my_hand)
  IN refresh_hand(parent_hand.H, N[c].state, parent_deck.ref, parent_hand.ref)

\* what stops get_best_ucb_child on node n, "none" when nothing does
ucb_failure(N, n) ==
  IF Len(N[n].children) = 0 \/ N[n].total_visits = 0 THEN "ValueError"
  ELSE IF \E i \in 1..Len(N[n].children) : N[N[n].children[i]].total_visits = 0
       THEN "ZeroDivisionError"
       ELSE "none"

\* find_leaf_node moves to the best child by UCB and refreshes its state
find_leaf_select ==
  /\ pc = "find_leaf"
  /\ ~is_terminal(Heap, nodes[current_node].state)
  /\ is_fully_expanded(nodes[current_node])
  /\ IF ucb_failure(nodes, current_node) # "none"
     THEN /\ pc' = "error"
          /\ error' = ucb_failure(nodes, current_node)
          /\ UNCHANGED <<decks, hands, states, current_node>>
     ELSE LET c == get_best_ucb_child(nodes, current_node)
              r == refresh(Heap, nodes, c)
          IN IF r.ok
             THEN /\ SetHeap(r.H)
                  /\ current_node' = c
                  /\ UNCHANGED <<pc, error>>
             ELSE /\ pc' = "error"
                  /\ error' = "IndexError"
                  /\ UNCHANGED <<decks, hands, states, current_node>>
  /\ UNCHANGED <<nodes, root, node, state, choice, agent, reward, iterations, result>>

\* one turn of the loop of simulate: a random action on a non-terminal state
simulate_step(action) ==
  /\ pc = "simulate"
  /\ ~is_terminal(Heap, state)
  /\ choice' = action
  /\ LET next == successor(Heap, state, action)
     IN IF next.ok
        THEN /\ SetHeap(next.H)
             /\ state' = next.ref
             /\ UNCHANGED <<pc, error>>
        ELSE /\ pc' = "error"
             /\ error' = "IndexError"
             /\ UNCHANGED <<decks, hands, states, state>>
  /\ UNCHANGED <<nodes, root, current_node, node, agent, reward, iterations,
                 result>>

\* the end of simulate: state.find_terminal_value()
simulate_payoff ==
  /\ pc = "simulate"
  /\ is_terminal(Heap, state)
  /\ LET t == find_terminal_value(Heap, state)
     IN IF t.ok
        THEN /\ SetHeap(t.H)
             /\ agent' = t.agent
             /\ reward' = t.payoff
             /\ pc' = "update_rewards"
             /\ error' = error
        ELSE /\ pc' = "error"
             /\ error' = "IndexError"
             /\ UNCHANGED <<decks, hands, states, agent, reward>>
  /\ UNCHANGED <<nodes, root, current_node, node, state, choice, iterations,
                 result>>

\* node.update_rewards(reward); the iteration is complete and its locals go
backpropagate ==
  /\ pc = "update_rewards"
  /\ LET N == update_rewards(nodes, node, reward)
     IN /\ nodes' = N
        /\ SetHeap(Collect(Heap, N))
  /\ iterations' = iterations + 1
  /\ state' = None
  /\ choice' = "none"
  /\ agent' = None
  /\ pc' = "loop"
  /\ UNCHANGED <<root, current_node, node, reward, result, error>>

\* lines 257-259: the best child by average and the action returned;
\* max() of an empty list raises ValueError
policy_return ==
  /\ pc = "best"
  /\ IF Len(nodes[root].children) = 0
     THEN /\ pc' = "error"
          /\ error' = "ValueError"
          /\ UNCHANGED <<node, result>>
     ELSE /\ node' = get_best_average_child(nodes, root)
          /\ result' = IF nodes[node'].parent_action = "hit" THEN "hit"
                       ELSE "stand"
          /\ pc' = "done"
          /\ error' = error
  /\ UNCHANGED <<decks, hands, states, nodes, root, current_node, state, choice, agent,
                 reward, iterations>>

Next ==
  \/ \E h \in {PlayerHand, DealerHand} : hit(h)
  \/ policy_begin
  \/ loop_continue
  \/ loop_exit
  \/ find_leaf_terminal
  \/ find_leaf_expand
  \/ find_leaf_select
  \/ \E action \in {"hit", "stand"} : simulate_step(action)
  \/ simulate_payoff
  \/ backpropagate
  \/ policy_return

Spec == Init /\ [][Next]_vars

(***************************************************************************)
(* The rollout specification: the same caller and the same search on decks *)
(* of the smallest cards, on which a hand takes the most cards.            *)
(***************************************************************************)
\* the ranks of the free cards of these decks
RolloutRanks == {"2", "A"}

RolloutInit ==
  /\ \E top \in [1..TopLen -> RolloutRanks] :
       decks = (LiveDeck :> DeckOf([i \in 1..RolloutTwos |-> "2"]
                                     \o [i \in 1..RolloutAces |-> "A"]
                                     \o top))
  /\ hands = (PlayerHand :> EmptyHand) @@ (DealerHand :> EmptyHand)
  /\ states = <<>>
  /\ nodes = <<>>
  /\ root = None
  /\ pc = "caller"
  /\ current_node = None
  /\ node = None
  /\ state = None
  /\ choice = "none"
  /\ agent = None
  /\ reward = 0
  /\ iterations = 0
  /\ result = "none"
  /\ error = "none"

RolloutSpec == RolloutInit /\ [][Next]_vars

(***************************************************************************)
(* The hand specification: any cards are added to one hand (Hand.add_card).*)
(***************************************************************************)
\* every variable the hand and scoring specifications leave alone
Idle ==
  /\ decks = <<>>
  /\ states = <<>>
  /\ nodes = <<>>
  /\ root = None
  /\ current_node = None
  /\ node = None
  /\ state = None
  /\ choice = "none"
  /\ agent = None
  /\ iterations = 0
  /\ result = "none"
  /\ error = "none"

HandInit ==
  /\ hands = (PlayerHand :> EmptyHand) @@ (DealerHand :> EmptyHand)
  /\ pc = "hand"
  /\ reward = 0
  /\ Idle

\* hand.add_card(card) on the hand h
Hand_add_card(h, card, max) ==
  /\ Len(hands[h].cards) < max
  /\ hands' = [hands EXCEPT ![h] = add_card(@, card)]
  /\ UNCHANGED <<decks, states, nodes, root, pc, current_node, node, state,
                 choice, agent, reward, iterations, result, error>>

HandNext ==
  \E i \in 1..Len(Values) : pc = "hand" /\ Hand_add_card(PlayerHand, Values[i], MaxAddCards)

HandSpec == HandInit /\ [][HandNext]_vars

(***************************************************************************)
(* The scoring specification: two hands are built and compared             *)
(* (Hand.compute_winner).                                                  *)
(***************************************************************************)
ScoreInit ==
  /\ hands = (PlayerHand :> EmptyHand) @@ (DealerHand :> EmptyHand)
  /\ pc = "score"
  /\ reward = 0
  /\ Idle

Score_add_card ==
  \E h \in {PlayerHand, DealerHand}, card \in ScoreRanks :
    pc = "score" /\ Hand_add_card(h, card, MaxScoreCards)

\* player.hand.compute_winner(dealer.hand)
Score_compute_winner ==
  /\ pc = "score"
  /\ reward' = compute_winner(hands[PlayerHand], hands[DealerHand])
  /\ pc' = "scored"
  /\ UNCHANGED <<decks, hands, states, nodes, root, current_node, node, state,
                 choice, agent, iterations, result, error>>

ScoreNext == Score_add_card \/ Score_compute_winner

ScoreSpec == ScoreInit /\ [][ScoreNext]_vars

(***************************************************************************)
(* The deck specification: a Deck is made, dealt from and reshuffled.      *)
(* choice holds the last method that ran on the deck since it was made.    *)
(***************************************************************************)
\* Deck(): __init__ calls deal_deck
DeckInit ==
  /\ \E seed \in 1..NumShuffles : decks = (LiveDeck :> deal_deck(seed))
  /\ hands = <<>>
  /\ states = <<>>
  /\ nodes = <<>>
  /\ root = None
  /\ pc = "deck"
  /\ current_node = None
  /\ node = None
  /\ state = None
  /\ choice = "none"
  /\ agent = None
  /\ reward = 0
  /\ iterations = 0
  /\ result = "none"
  /\ error = "none"

\* deck.deal_card(); list.pop() on an empty list raises IndexError
Deck_deal_card ==
  /\ pc = "deck"
  /\ choice' = "deal_card"
  /\ IF Len(decks[LiveDeck].cards) = 0
     THEN /\ pc' = "error"
          /\ error' = "IndexError"
          /\ UNCHANGED decks
     ELSE /\ decks' = [decks EXCEPT ![LiveDeck] = deal_card(@)]
          /\ UNCHANGED <<pc, error>>
  /\ UNCHANGED <<hands, states, nodes, root, current_node, node, state, agent,
                 reward, iterations, result>>

\* deck.start_round(): a reshuffle when less than Redeal_percentage (a half)
\* of the cards is left
Deck_start_round ==
  /\ pc = "deck"
  /\ IF 2 * Len(decks[LiveDeck].cards) < Len(Suits) * Len(Values) * Deck_num
     THEN /\ \E seed \in 1..NumShuffles :
               decks' = [decks EXCEPT ![LiveDeck] = deal_deck(seed)]
          /\ choice' = "deal_deck"
     ELSE /\ choice' = "start_round"
          /\ UNCHANGED decks
  /\ UNCHANGED <<hands, states, nodes, root, pc, current_node, node, state,
                 agent, reward, iterations, result, error>>

DeckNext == Deck_deal_card \/ Deck_start_round

DeckSpec == DeckInit /\ [][DeckNext]_vars

(***************************************************************************)
(* Properties of MonteCarloAgent.policy                                    *)
(***************************************************************************)
\* the children of node n, as a set
Children(n) == {nodes[n].children[i] : i \in 1..Len(nodes[n].children)}

RECURSIVE Chain(_)
\* the nodes on the parent chain from n to the root, both included
Chain(n) == IF n = None THEN {} ELSE {n} \cup Chain(nodes[n].parent)

\* the value of the player's live hand: what policy is called with
OwnValue == hands[PlayerHand].value

\* C1: whatever the time budget, when the final child is chosen at least one
\* iteration is complete and the root has a child with visit count >= 1, so
\* the call returns an action and does not fail.
C1_AtLeastOneIteration ==
  /\ pc = "best" =>
       /\ iterations >= 1
       /\ \E c \in Children(root) : nodes[c].total_visits >= 1
  /\ (pc = "error" /\ OwnValue <= 21) => error # "ValueError"

\* C2: called with an own hand above 21, policy returns "stand" without
\* constructing a search tree and without running an iteration.
C2_BustStandsWithoutTree ==
  (pc # "caller" /\ OwnValue > 21) =>
    /\ root = None
    /\ nodes = <<>>
    /\ iterations = 0
    /\ pc = "done"
    /\ result = "stand"

\* C3: called with an own hand of exactly 21, policy returns "stand" without
\* searching: no child of the root is ever expanded.
C3_TwentyOneStandsWithoutSearch ==
  (pc # "caller" /\ OwnValue = 21) =>
    /\ root # None => Children(root) = {}
    /\ pc = "done" => result = "stand"

\* the heap after the step
HeapNext == [decks |-> decks', hands |-> hands', states |-> states']

\* the content of state s in heap H: its hands, its deck and its flag
StateValue(H, s) ==
  [my_hand |-> H.hands[H.states[s].my_hand],
   dealer_hand |-> H.hands[H.states[s].dealer_hand],
   deck |-> H.decks[H.states[s].deck],
   stand |-> H.states[s].stand]

\* C4: no step of policy changes the live deck (cards, heat, card_counts),
\* the player's hand or the dealer's hand: the search draws from copies.
C4_LiveObjectsUnchanged ==
  [][pc' # "caller" =>
       /\ decks'[LiveDeck] = decks[LiveDeck]
       /\ hands'[PlayerHand] = hands[PlayerHand]
       /\ hands'[DealerHand] = hands[DealerHand]]_vars

\* a decision returned after a search that drew cards on its copies
C4_Witness ==
  /\ pc = "done"
  /\ iterations >= 3
  /\ \E s \in DOMAIN states :
       Len(decks[states[s].deck].cards) < Len(decks[LiveDeck].cards)

\* C5: from a non-terminal root, the root's visit count is the number of
\* completed iterations, and between iterations every node on the parent
\* chain of every node that was a leaf has visit count >= 1.
C5_VisitCounts ==
  (root # None /\ OwnValue <= 21) =>
    /\ nodes[root].total_visits = iterations
    /\ pc \in {"loop", "best", "done"} =>
         \A n \in DOMAIN nodes \ {root} :
           \A a \in Chain(n) : nodes[a].total_visits >= 1

\* four iterations are complete and a leaf two levels below the root was
\* backpropagated
C5_Witness ==
  /\ pc = "loop"
  /\ OwnValue <= 21
  /\ iterations >= 4
  /\ \E n \in DOMAIN nodes :
       Cardinality(Chain(n)) = 3 /\ nodes[n].total_visits >= 1

\* C7: find_terminal_value plays the dealer's hand out before it scores, so
\* the dealer hand compared with the own hand has value >= 17.
C7_DealerPlayedOut ==
  pc = "update_rewards" => hands[states[state].dealer_hand].value >= 17

\* what successor(action) on the state recv must do, res being the state it
\* returns: recv and its objects keep their content, res and its objects are
\* new, and res is recv with one card moved from the top of the deck to the
\* own hand (hit) or with the stand flag set (stand)
SuccessorCall(recv, res, action) ==
  LET old == StateValue(Heap, recv)
      new == StateValue(HeapNext, res)
  IN /\ states'[recv] = states[recv]
     /\ StateValue(HeapNext, recv) = old
     /\ res \notin DOMAIN states
     /\ states'[res].my_hand \notin DOMAIN hands
     /\ states'[res].dealer_hand \notin DOMAIN hands
     /\ states'[res].deck \notin DOMAIN decks
     /\ new.dealer_hand = old.dealer_hand
     /\ IF action = "hit"
        THEN /\ new.deck.cards
                  = SubSeq(old.deck.cards, 1, Len(old.deck.cards) - 1)
             /\ new.my_hand.cards
                  = Append(old.my_hand.cards,
                           old.deck.cards[Len(old.deck.cards)])
             /\ new.stand = old.stand
        ELSE /\ action = "stand"
             /\ new.deck = old.deck
             /\ new.my_hand = old.my_hand
             /\ new.stand = TRUE

\* C8: successor never changes the state it is called on, in a rollout
\* (simulate) and in an expansion (expand) alike; the state it returns is a
\* copy with one card moved from the deck to the own hand, or with the stand
\* flag set.
C8_SuccessorCopies ==
  [][/\ (pc = "simulate" /\ pc' = "simulate") =>
          SuccessorCall(state, state', choice')
     /\ (pc = "find_leaf" /\ pc' = "simulate" /\ node' # current_node) =>
          SuccessorCall(nodes[current_node].state, nodes'[node'].state,
                        nodes'[node'].parent_action)]_vars

\* a rollout has hit twice from the state of its leaf
C8_Witness ==
  /\ pc = "simulate"
  /\ choice = "hit"
  /\ state # nodes[node].state
  /\ Len(hands[states[state].my_hand].cards)
       = Len(hands[states[nodes[node].state].my_hand].cards) + 2

\* the elements of a sequence
Range(seq) == {seq[i] : i \in 1..Len(seq)}

\* C9 as stated: get_actions gives {hit, stand} on a non-terminal state and
\* the empty set on a terminal one.
C9_LegalActions ==
  \A s \in DOMAIN states :
    Range(get_actions(Heap, s))
      = IF is_terminal(Heap, s) THEN {} ELSE {"hit", "stand"}

\* C9 as amended: get_actions gives {hit, stand} on every state, terminal or
\* not; it is the node that leaves a terminal state without actions: a node
\* is created with no unexpanded action on a terminal state and with hit and
\* stand on any other.
C9_ActionsOfNewNodes ==
  [][\A n \in DOMAIN nodes' \ DOMAIN nodes :
       /\ Range(get_actions(HeapNext, nodes'[n].state)) = {"hit", "stand"}
       /\ Range(nodes'[n].missing_child_actions)
            = IF is_terminal(HeapNext, nodes'[n].state) THEN {}
              ELSE {"hit", "stand"}]_vars

\* a node created by a hit on a busted hand, with no action to expand, under
\* a root created on a hand that could still be played, with both
C9_Witness ==
  /\ root # None
  /\ OwnValue <= 21
  /\ Len(nodes[root].children) + Len(nodes[root].missing_child_actions) = 2
  /\ \E n \in DOMAIN nodes :
       /\ nodes[n].parent_action = "hit"
       /\ hands[states[nodes[n].state].my_hand].value > 21
       /\ nodes[n].missing_child_actions = <<>>
       /\ nodes[n].children = <<>>

(***************************************************************************)
(* Properties of Hand                                                      *)
(***************************************************************************)
\* C6: the score is 0 for an own hand above 21, else 1 for a dealer hand
\* above 21, else 0.5 for equal values, else 1 for the higher own hand, else
\* 0 (in half points: 0, 2, 1, 2, 0); no other result occurs.
C6_Scoring ==
  pc = "scored" =>
    LET own == hands[PlayerHand].value
        dealer == hands[DealerHand].value
    IN /\ reward \in {0, 1, 2}
       /\ own > 21 => reward = 0
       /\ (own <= 21 /\ dealer > 21) => reward = 2
       /\ (own <= 21 /\ dealer <= 21 /\ own = dealer) => reward = 1
       /\ (own <= 21 /\ dealer <= 21 /\ own > dealer) => reward = 2
       /\ (own <= 21 /\ dealer <= 21 /\ own < dealer) => reward = 0

\* both hands are above 21 and the own hand has lost
C6_Witness ==
  /\ pc = "scored"
  /\ hands[PlayerHand].value > 21
  /\ hands[DealerHand].value > 21
  /\ reward = 0

\* C10: after every add_card the hand is above 21 only with its ace counter
\* at 0, and an ace added to a hand of value <= 10 gives the old value + 11.
C10_HandValue ==
  [][hands'[PlayerHand] # hands[PlayerHand] =>
       LET old == hands[PlayerHand]
           new == hands'[PlayerHand]
           card == new.cards[Len(new.cards)]
       IN /\ new.value > 21 => new.aces = 0
          /\ (card = "A" /\ old.value <= 10) => new.value = old.value + 11]_vars

\* a hand that holds an ace, has used the relaxation up and is above 21
C10_Witness ==
  /\ pc = "hand"
  /\ "A" \in Range(hands[PlayerHand].cards)
  /\ hands[PlayerHand].aces = 0
  /\ hands[PlayerHand].value > 21

RECURSIVE LowTotal(_)
\* the total of cards with every ace counted as 1, from the ranks alone
LowTotal(cards) ==
  IF Len(cards) = 0 THEN 0
  ELSE LET c == cards[Len(cards)]
           v == IF c = "A" THEN 1
                ELSE IF c \in {"J", "Q", "K"} THEN 10
                ELSE CHOOSE k \in 2..10 : ToString(k) = c
       IN v + LowTotal(SubSeq(cards, 1, Len(cards) - 1))

\* the best total of cards: each ace is 1 or 11; the largest total that is
\* <= 21 when there is one, else the smallest total
BestTotal(cards) ==
  LET low == LowTotal(cards)
      totals == {low + 10 * k : k \in 0..Count(cards, {"A"})}
      fitting == {t \in totals : t <= 21}
  IN IF fitting = {} THEN low
     ELSE CHOOSE t \in fitting : \A u \in fitting : u <= t

\* C11: after any sequence of add_card calls on an empty hand, the value kept
\* by the hand is the best total of the cards it holds, computed from scratch.
C11_ValueIsBestTotal ==
  pc = "hand" =>
    hands[PlayerHand].value = BestTotal(hands[PlayerHand].cards)

\* a hand of two aces and a ten: one ace was relaxed when the second came,
\* the other when the ten came, and the best total is 12
C11_Witness ==
  /\ pc = "hand"
  /\ Len(hands[PlayerHand].cards) = 3
  /\ Count(hands[PlayerHand].cards, {"A"}) = 2
  /\ hands[PlayerHand].value = 12
  /\ BestTotal(hands[PlayerHand].cards) = 12

(***************************************************************************)
(* Properties of Deck                                                      *)
(***************************************************************************)
\* what a call of deal_deck leaves: every rank 24 times (6 decks of 4
\* suits), the counter at 0
FullDeck(deck) ==
  /\ Len(deck.cards) = 312
  /\ \A i \in 1..Len(Values) : Count(deck.cards, {Values[i]}) = 24
  /\ deck.heat = 0

\* the cards of the ranks in S that left the deck since the last reshuffle
Removed(deck, S) == 24 * Cardinality(S) - Count(deck.cards, S)

\* C12: deal_card on a non-empty deck takes exactly the top card and moves
\* the counter by +1 for a high card, -1 for a low card and 0 for any other;
\* a reshuffle gives the full composition and the counter 0; so the counter
\* always is (high cards removed) - (low cards removed) since the reshuffle.
C12_DeckConservation ==
  /\ [](pc = "deck" =>
          decks[LiveDeck].heat
            = Removed(decks[LiveDeck], {"10", "J", "Q", "K", "A"})
                - Removed(decks[LiveDeck], {"2", "3", "4", "5", "6"}))
  /\ [][LET old == decks[LiveDeck]
            new == decks'[LiveDeck]
            top == old.cards[Len(old.cards)]
        IN /\ (choice' = "deal_card" /\ Len(old.cards) > 0) =>
                /\ Len(new.cards) = Len(old.cards) - 1
                /\ new.cards = SubSeq(old.cards, 1, Len(old.cards) - 1)
                /\ new.heat - old.heat
                     = IF top \in {"10", "J", "Q", "K", "A"} THEN 1
                       ELSE IF top \in {"2", "3", "4", "5", "6"} THEN 0 - 1
                       ELSE 0
           /\ choice' = "deal_deck" => FullDeck(new)
           /\ choice' = "start_round" => new = old]_vars

\* more than half of the cards was dealt and start_round has reshuffled
C12_Witness ==
  /\ pc = "deck"
  /\ choice = "deal_deck"
  /\ FullDeck(decks[LiveDeck])

(***************************************************************************)
(* Properties of the rollout                                               *)
(***************************************************************************)
\* the actions simulate has taken from the state of its node: a card in the
\* own hand for every hit, and the stand flag for a stand
RolloutActions ==
  LET from == states[nodes[node].state]
      now == states[state]
  IN Len(hands[now.my_hand].cards) - Len(hands[from.my_hand].cards)
       + (IF now.stand /\ ~from.stand THEN 1 ELSE 0)

\* C13: whatever it chooses, a rollout has taken at most 20 actions when it
\* reaches a terminal state, and it takes none after that; from a root that
\* is not terminal no rollout ends for want of a card.
C13_RolloutBounded ==
  /\ pc = "simulate" => RolloutActions <= 20
  /\ (pc = "error" /\ OwnValue <= 21) => error # "IndexError"

\* a rollout that hit nineteen times, all aces, before the hand was above 21
C13_Witness ==
  /\ pc = "simulate"
  /\ RolloutActions = 19
  /\ hands[states[state].my_hand].value > 21
  /\ ~states[state].stand

(***************************************************************************)
(* Properties of the decision                                              *)
(***************************************************************************)
\* the average reward of node a is at most that of node b (a node without
\* visits has the average 0), by cross multiplication
AverageAtMost(a, b) ==
  LET ra == IF nodes[a].total_visits = 0 THEN 0 ELSE nodes[a].total_rewards
      va == IF nodes[a].total_visits = 0 THEN 1 ELSE nodes[a].total_visits
      rb == IF nodes[b].total_visits = 0 THEN 0 ELSE nodes[b].total_rewards
      vb == IF nodes[b].total_visits = 0 THEN 1 ELSE nodes[b].total_visits
  IN ra * vb <= rb * va

\* C14: when the loop ends with a child under the root, policy returns the
\* action of a child of the root whose average reward no other child of the
\* root exceeds: hit if that child was made by "hit", stand otherwise.
C14_BestAverageChild ==
  /\ (pc = "best" /\ Children(root) # {}) => ENABLED policy_return
  /\ pc = "done" =>
       /\ node \in Children(root)
       /\ \A c \in Children(root) : AverageAtMost(c, node)
       /\ result = (IF nodes[node].parent_action = "hit" THEN "hit"
                    ELSE "stand")

\* stand is returned: the stand child has the higher average, though the
\* hit child has the larger cumulative reward
C14_Witness ==
  /\ pc = "done"
  /\ result = "stand"
  /\ \E c \in Children(root) :
       /\ nodes[c].parent_action = "hit"
       /\ ~AverageAtMost(node, c)
       /\ nodes[c].total_rewards > nodes[node].total_rewards

\* policy was called with an own hand of value 20 against a dealer's card
\* of the ranks 2 to 6
TwentyAgainstLow ==
  /\ root # None
  /\ OwnValue = 20
  /\ hands[DealerHand].cards \in {<<"2">>, <<"3">>, <<"4">>, <<"5">>, <<"6">>}

\* C15: with an own hand of 20 against a low card of the dealer, the visit
\* count of the root's stand child never goes down from one step of the
\* search to the next, and whatever number of iterations (one at least) the
\* budget allows, the search recommends stand.
C15_StandOnTwenty ==
  /\ []((TwentyAgainstLow /\ pc = "done") => result = "stand")
  /\ []((TwentyAgainstLow /\ pc = "error") => iterations = 0)
  /\ [][TwentyAgainstLow =>
          \A c \in Children(root) :
            nodes[c].parent_action = "stand" =>
              /\ c \in DOMAIN nodes'
              /\ nodes'[c].parent_action = "stand"
              /\ nodes'[c].total_visits >= nodes[c].total_visits]_vars

\* stand is recommended after five iterations at least, the stand child
\* having been visited three times and the hit child twice or more
C15_Witness ==
  /\ TwentyAgainstLow
  /\ pc = "done"
  /\ result = "stand"
  /\ iterations >= 5
  /\ \E c, d \in Children(root) :
       /\ nodes[c].parent_action = "stand"
       /\ nodes[c].total_visits >= 3
       /\ nodes[d].parent_action = "hit"
       /\ nodes[d].total_visits >= 2

(***************************************************************************)
(* Properties of the selection                                             *)
(***************************************************************************)
\* the step is a move of find_leaf_node to a child chosen by UCB
SelectStep ==
  /\ pc = "find_leaf"
  /\ pc' = "find_leaf"
  /\ current_node' # current_node

\* C16: when selection moves to a child by UCB, the child's state becomes
\* what successor(parent state, child's action) gives: for a hit child the
\* parent's own hand with the top card of the parent's deck added and the
\* parent's deck without it; for a stand child the parent's own hand and
\* deck as they are, with the stand flag set.
C16_RefreshReappliesAction ==
  [][SelectStep =>
       LET parent == StateValue(Heap, nodes[current_node].state)
           child == StateValue(HeapNext, nodes[current_node'].state)
       IN IF nodes[current_node'].parent_action = "hit"
          THEN /\ child.my_hand = add_card(parent.my_hand,
                                           top_card(parent.deck))
               /\ child.deck = deal_card(parent.deck)
               /\ child.stand = parent.stand
          ELSE /\ child.my_hand = parent.my_hand
               /\ child.deck = parent.deck
               /\ child.stand]_vars

\* the card node n got last: the last card of the own hand of its state
LastCard(n) ==
  LET cards == hands[states[nodes[n].state].my_hand].cards
  IN cards[Len(cards)]

\* the last card of node n after the step
LastCardNext(n) ==
  LET cards == hands'[states'[nodes'[n].state].my_hand].cards
  IN cards[Len(cards)]

\* find_leaf_node is about to move by UCB to the hit child c, and the deck of
\* the parent holds a card of another rank than the one c got last
HitRevisit(c) ==
  /\ pc = "find_leaf"
  /\ ~is_terminal(Heap, nodes[current_node].state)
  /\ is_fully_expanded(nodes[current_node])
  /\ ucb_failure(nodes, current_node) = "none"
  /\ c = get_best_ucb_child(nodes, current_node)
  /\ nodes[c].parent_action = "hit"
  /\ \E r \in Range(decks[states[nodes[current_node].state].deck].cards) :
       r # LastCard(c)

\* the cards the revisit of node c can give it: the refresh of lines 384-386
\* has one outcome
RevisitCards(c) ==
  LET r == refresh(Heap, nodes, c)
      cards == r.H.hands[r.H.states[nodes[c].state].my_hand].cards
  IN {cards[Len(cards)]}

\* C17: the card of a hit edge is resampled at every traversal, not fixed
\* when the edge is made: whenever a hit child is revisited by UCB and the
\* parent's deck holds another rank, the revisit can give the child a card
\* different from the one it got before.
C17_CardResampled ==
  \A c \in DOMAIN nodes :
    HitRevisit(c) => \E card \in RevisitCards(c) : card # LastCard(c)

\* C17, what the code does: every revisit of a hit child gives it the card
\* it got when the edge was made, the top card of the parent's deck, which
\* the copies never reorder.
C17_SameCardRedrawn ==
  [][(SelectStep /\ nodes[current_node'].parent_action = "hit") =>
       LastCardNext(current_node') = LastCard(current_node')]_vars

\* a hit child was made, visited and revisited by UCB, with another rank
\* left in the deck of its parent
C17_Witness ==
  /\ pc = "find_leaf"
  /\ current_node # root
  /\ current_node # None
  /\ nodes[current_node].parent_action = "hit"
  /\ nodes[current_node].total_visits >= 1
  /\ \E r \in Range(decks[states[nodes[nodes[current_node].parent].state].deck].cards) :
       r # LastCard(current_node)

\* find_leaf_node is at the call of get_best_ucb_child on current_node: the
\* state of the node is not terminal and no action is left to expand
AtUcbCall ==
  /\ pc = "find_leaf"
  /\ hands[states[nodes[current_node].state].my_hand].value <= 21
  /\ ~states[nodes[current_node].state].stand
  /\ nodes[current_node].missing_child_actions = <<>>

\* C18: in a search from a root that is not terminal, whenever find_leaf_node
\* calls get_best_ucb_child on a node, the node has a child; a node made on a
\* terminal state (and so without actions and children) is still terminal
\* after every rebuild of its state, and the call is never made on it.
C18_NoEmptySelection ==
  (root # None /\ OwnValue <= 21) =>
    /\ AtUcbCall => Len(nodes[current_node].children) >= 1
    /\ \A n \in DOMAIN nodes :
         (nodes[n].children = <<>> /\ nodes[n].missing_child_actions = <<>>) =>
           \/ hands[states[nodes[n].state].my_hand].value > 21
           \/ states[nodes[n].state].stand

\* selection has come back by UCB to a hit child that was above 21 when it
\* was made: its state was rebuilt and find_leaf_node is to test it
C18_Witness ==
  /\ pc = "find_leaf"
  /\ OwnValue <= 21
  /\ current_node # root
  /\ nodes[current_node].parent_action = "hit"
  /\ nodes[current_node].total_visits >= 1
  /\ nodes[current_node].children = <<>>
  /\ nodes[current_node].missing_child_actions = <<>>
  /\ hands[states[nodes[current_node].state].my_hand].value > 21

\* C19: the UCB score is never computed on a visit count of 0: whenever
\* find_leaf_node calls get_best_ucb_child on a node, the node and every
\* child of the node have been visited at least once.
C19_NoUnvisitedUcb ==
  (root # None /\ AtUcbCall) =>
    /\ nodes[current_node].total_visits >= 1
    /\ \A c \in Children(current_node) : nodes[c].total_visits >= 1

\* get_best_ucb_child is called below the root: on a hit child of the root
\* that has both its children
C19_Witness ==
  /\ root # None
  /\ AtUcbCall
  /\ current_node # root
  /\ Cardinality(Children(current_node)) = 2

(***************************************************************************)
(* Properties of the backpropagation                                       *)
(***************************************************************************)
\* C20: update_rewards with the payoff r on a leaf adds 1 to the visit count
\* and r to the cumulative reward of every node on the parent chain from the
\* leaf to the root, both included, and changes no other node and nothing
\* else of any node.
C20_Backpropagation ==
  [][(pc = "update_rewards" /\ pc' = "loop") =>
       /\ DOMAIN nodes' = DOMAIN nodes
       /\ root \in Chain(node)
       /\ \A n \in DOMAIN nodes :
            IF n \in Chain(node)
            THEN nodes'[n] =
                   [nodes[n] EXCEPT !.total_visits = @ + 1,
                                    !.total_rewards = @ + reward]
            ELSE nodes'[n] = nodes[n]]_vars

\* a win was backpropagated from a leaf two levels below the root, past
\* nodes that are not on its chain
C20_Witness ==
  /\ pc = "loop"
  /\ iterations >= 1
  /\ reward = 2
  /\ Cardinality(Chain(node)) = 3
  /\ \E n \in DOMAIN nodes : n \notin Chain(node) /\ nodes[n].total_visits >= 1
  /\ \A n \in Chain(node) : nodes[n].total_rewards >= 1

(***************************************************************************)
(* Properties of the expansion                                             *)
(***************************************************************************)
\* the actions of the children of node n, in the order of the children
ChildActions(n) ==
  [i \in 1..Len(nodes[n].children) |->
     nodes[nodes[n].children[i]].parent_action]

\* the state of node n is terminal
NodeTerminal(n) ==
  \/ hands[states[nodes[n].state].my_hand].value > 21
  \/ states[nodes[n].state].stand

\* C21: an expand call takes exactly one action out of the unexpanded actions
\* of the node and attaches exactly one new child with that action and the
\* node as parent; at all times a node on a terminal state has no children
\* and no unexpanded action, and of any other node the actions of the
\* children and the unexpanded actions are disjoint and together {hit, stand};
\* UCB selects through a node only when both actions have a child.
C21_ExpandOnce ==
  /\ [](\A n \in DOMAIN nodes :
          IF NodeTerminal(n)
          THEN nodes[n].children = <<>> /\ nodes[n].missing_child_actions = <<>>
          ELSE /\ Len(nodes[n].children) + Len(nodes[n].missing_child_actions) = 2
               /\ Range(ChildActions(n)) \cup Range(nodes[n].missing_child_actions)
                    = {"hit", "stand"})
  /\ [][/\ SelectStep => Range(ChildActions(current_node)) = {"hit", "stand"}
        /\ (pc = "find_leaf" /\ pc' = "simulate" /\ node' # current_node) =>
             LET old == nodes[current_node]
                 new == nodes'[current_node]
                 action == nodes'[node'].parent_action
             IN /\ DOMAIN nodes' = DOMAIN nodes \cup {node'}
                /\ node' \notin DOMAIN nodes
                /\ \A n \in DOMAIN nodes \ {current_node} : nodes'[n] = nodes[n]
                /\ new = [old EXCEPT !.children = Append(@, node'),
                                     !.missing_child_actions =
                                       SubSeq(@, 1, Len(@) - 1)]
                /\ action = old.missing_child_actions[
                              Len(old.missing_child_actions)]
                /\ action \notin Range(new.missing_child_actions)
                /\ action \notin Range(ChildActions(current_node))
                /\ nodes'[node'].parent = current_node
                /\ nodes'[node'].children = <<>>]_vars

\* the root has both its children, its hit child has one child and one
\* action left to expand, and the stand child, on a terminal state, has none
C21_Witness ==
  /\ root # None
  /\ Range(ChildActions(root)) = {"hit", "stand"}
  /\ \E h, t \in Children(root) :
       /\ nodes[h].parent_action = "hit"
       /\ Len(nodes[h].children) = 1
       /\ Len(nodes[h].missing_child_actions) = 1
       /\ nodes[t].parent_action = "stand"
       /\ nodes[t].total_visits >= 2
       /\ nodes[t].children = <<>>

DeckOfNode(n) == states[nodes[n].state].deck

HandsOfNode(n) ==
  {states[nodes[n].state].my_hand, states[nodes[n].state].dealer_hand}

\* C23: no two nodes share a state, a deck or a hand object, no node shares
\* one with the live game, and the two hands of a state are two objects; so
\* no step of a search (expansion, refresh, rollout, dealer play) changes
\* the deck or hands of the states of two nodes, nor those of the live game.
C23_NoSharedObjects ==
  /\ [](\A n \in DOMAIN nodes :
          /\ DeckOfNode(n) # LiveDeck
          /\ HandsOfNode(n) \cap {PlayerHand, DealerHand} = {}
          /\ Cardinality(HandsOfNode(n)) = 2
          /\ \A m \in DOMAIN nodes \ {n} :
               /\ nodes[m].state # nodes[n].state
               /\ DeckOfNode(m) # DeckOfNode(n)
               /\ HandsOfNode(m) \cap HandsOfNode(n) = {})
  /\ [][pc # "caller" =>
          /\ decks'[LiveDeck] = decks[LiveDeck]
          /\ hands'[PlayerHand] = hands[PlayerHand]
          /\ hands'[DealerHand] = hands[DealerHand]
          /\ \A n, m \in DOMAIN nodes :
               (/\ StateValue(HeapNext, nodes'[n].state)
                     # StateValue(Heap, nodes[n].state)
                /\ StateValue(HeapNext, nodes'[m].state)
                     # StateValue(Heap, nodes[m].state)) => n = m]_vars

\* the dealer play of find_terminal_value has drawn from the deck of the
\* leaf's own state, in a tree of four nodes at least of which one was
\* rebuilt by a refresh: its sibling and its parent hold other decks
C23_Witness ==
  /\ pc = "update_rewards"
  /\ state = nodes[node].state
  /\ Cardinality(DOMAIN nodes) >= 4
  /\ iterations >= 4
  /\ \E m \in DOMAIN nodes \ {node} :
       /\ nodes[m].parent = nodes[node].parent
       /\ Len(decks[DeckOfNode(m)].cards) > Len(decks[DeckOfNode(node)].cards)

\* C24: in a search from a root that is not terminal, the state of the root
\* never changes: its deck (cards in order, counter and counts), its own
\* hand, its dealer hand and its stand flag are at every moment the copies
\* taken from the live game when the search started.
C24_RootStateFixed ==
  /\ []((root # None /\ OwnValue <= 21) =>
          StateValue(Heap, nodes[root].state)
            = [my_hand |-> hands[PlayerHand],
               dealer_hand |-> hands[DealerHand],
               deck |-> decks[LiveDeck],
               stand |-> FALSE])
  /\ [][(root # None /\ OwnValue <= 21) =>
          /\ root' = root
          /\ nodes'[root].state = nodes[root].state
          /\ StateValue(HeapNext, nodes'[root].state)
               = StateValue(Heap, nodes[root].state)]_vars

\* five iterations are complete: both children of the root were expanded
\* from its state and rebuilt from it by a refresh, and a node below them
\* was expanded
C24_Witness ==
  /\ pc = "loop"
  /\ OwnValue <= 21
  /\ iterations >= 5
  /\ \A c \in Children(root) : nodes[c].total_visits >= 2
  /\ \E n \in DOMAIN nodes : Cardinality(Chain(n)) = 3
  /\ Len(decks[DeckOfNode(root)].cards) = Len(decks[LiveDeck].cards)

(***************************************************************************)
(* Properties of the counters of the tree                                  *)
(***************************************************************************)
RECURSIVE SumOfVisits(_)
\* the sum of the visit counts of a sequence of nodes
SumOfVisits(seq) ==
  IF Len(seq) = 0 THEN 0
  ELSE nodes[seq[1]].total_visits + SumOfVisits(SubSeq(seq, 2, Len(seq)))

\* the search is between two iterations, or over
IterationBoundary == pc \in {"loop", "best", "done"}

\* C25: between the iterations of a search from a root that is not terminal,
\* the visit count of the root is the sum of the visit counts of its
\* children, and the visit count of any other node that has children is at
\* least 1 plus the sum of the visit counts of its children.
C25_VisitsAddUp ==
  (root # None /\ OwnValue <= 21 /\ IterationBoundary) =>
    /\ nodes[root].total_visits = SumOfVisits(nodes[root].children)
    /\ \A n \in DOMAIN nodes \ {root} :
         nodes[n].children # <<>> =>
           nodes[n].total_visits >= 1 + SumOfVisits(nodes[n].children)

\* the search is over after five iterations at least, and a node below the
\* root has both its children, each of them visited
C25_Witness ==
  /\ pc = "done"
  /\ OwnValue <= 21
  /\ iterations >= 5
  /\ \E n \in DOMAIN nodes \ {root} :
       /\ Len(nodes[n].children) = 2
       /\ SumOfVisits(nodes[n].children) >= 2
       /\ nodes[n].total_visits >= 3

\* C26: at all times the cumulative reward of every node is between 0 and
\* its visit count (0 and twice the count, in half points), so its average
\* reward is between 0 and 1; every payoff that is backpropagated is 0, 0.5
\* or 1; and the average reward of a node without visits is 0.
C26_RewardsInRange ==
  /\ \A n \in DOMAIN nodes :
       /\ nodes[n].total_visits >= 0
       /\ nodes[n].total_rewards >= 0
       /\ nodes[n].total_rewards <= 2 * nodes[n].total_visits
       /\ get_average_reward(nodes[n]) >= 0
       /\ get_average_reward(nodes[n]) <= 2 * AvgUnit
       /\ nodes[n].total_visits = 0 => get_average_reward(nodes[n]) = 0
  /\ pc = "update_rewards" => reward \in {0, 1, 2}

\* a new leaf without visits is in its rollout while another node holds a
\* tie among its payoffs and a third one nothing but wins
C26_Witness ==
  /\ pc = "simulate"
  /\ nodes[node].total_visits = 0
  /\ \E n, m \in DOMAIN nodes :
       /\ nodes[n].total_visits >= 2
       /\ nodes[n].total_rewards % 2 = 1
       /\ nodes[m].total_visits >= 1
       /\ nodes[m].total_rewards = 2 * nodes[m].total_visits

====
